---- MODULE Spec2Model ----
(***************************************************************************)
(* Model of the forecast orchestration layer of src/models.py:             *)
(* UniversalForecastModel (prepare_data, train, _train_simple_fallback,    *)
(* predict, _simple_trend_forecast) and create_forecast.                   *)
(*                                                                         *)
(* Conventions.                                                            *)
(*  - A timestamp is a day ordinal, day 0 = 2023-01-01 (a Sunday).         *)
(*  - A raw row is [date |-> day, value |-> v]; v is an integer or NULL    *)
(*    (NaN).  Raw values are multiples of ValueUnit so that pandas' linear *)
(*    interpolation is computed exactly with integer arithmetic.           *)
(*  - Python's None for an object is the empty sequence, an object x is    *)
(*    <<x>>; None for best_model_name is the string NoneName.              *)
(*  - A trend forecast value is the exact rational <<num, den>> of the     *)
(*    least-squares line (floating-point rounding is not modelled), or     *)
(*    NaN.                                                                 *)
(*  - The AutoTS library is outside the repository: the result of fit()    *)
(*    and predict() is a nondeterministic choice over what the library can *)
(*    return or raise.                                                     *)
(***************************************************************************)
EXTENDS Integers, Sequences, FiniteSets, TLC

(* ---------------------------- bounds ---------------------------------- *)
MaxRows == 7        \* raw series have MaxRows-1 or MaxRows rows
MaxDups == 2        \* at most this many rows repeat an earlier timestamp
MaxNulls == 2       \* at most this many rows have a null value
MaxHorizon == 2     \* forecast_months ranges over 1..MaxHorizon
ValueUnit == 60     \* raw values are multiples of this (keeps interpolation exact)
MaxMonth == 47      \* the calendar covers month 0 (2023-01) .. MaxMonth
MaxLength == 26     \* prepared series of the model selection have up to this many rows
MaxHist == 4        \* histories handed to _simple_trend_forecast directly have 0..MaxHist rows

(* ------------------------ program constants --------------------------- *)
MinPoints == 6      \* models.py:43  len(df) < 6
FallbackDays == 30  \* models.py:250 timedelta(days=30)

NULL == -1          \* NaN / None in the value column (real values are >= 0)
NaN == <<0, 0>>     \* NaN as a forecast value
NoneName == "<None>"
NoName == ""
ZeroesNaive == "ZeroesNaive"
FallbackSuffix == " (fallback)"
None == <<>>
Some(x) == <<x>>
IsNone(o) == o = <<>>
Get(o) == o[1]

\* F applied to the value of e (e is evaluated once)
Let1(F(_), e) == CHOOSE y \in {F(x) : x \in {e}} : TRUE

(* ----------------------------- calendar ------------------------------- *)
IsLeap(y) == (y % 4 = 0 /\ y % 100 # 0) \/ y % 400 = 0

\* number of days of month index m (0 = January 2023)
DaysInMonth(m) ==
    LET moy == m % 12
        y == 2023 + (m \div 12)
    IN  IF moy = 1 THEN (IF IsLeap(y) THEN 29 ELSE 28)
        ELSE IF moy \in {3, 5, 8, 10} THEN 30 ELSE 31

RECURSIVE MonthStartDay(_)
MonthStartDay(m) == IF m = 0 THEN 0 ELSE MonthStartDay(m - 1) + DaysInMonth(m - 1)

MonthEndDay(m) == MonthStartDay(m + 1) - 1

MonthOfDay(d) == CHOOSE m \in 0..MaxMonth : MonthStartDay(m) <= d /\ d <= MonthEndDay(m)

\* ts + pd.offsets.MonthBegin(1): the first month start strictly after d
MonthBegin1(d) == MonthStartDay(MonthOfDay(d) + 1)

\* first Sunday on or after day d (freq 'W' is W-SUN; day 0 is a Sunday)
SundayOnOrAfter(d) == d + ((7 - (d % 7)) % 7)

\* pd.date_range(start, periods, freq='ME'): the month ends from the first one
\* on or after start
DateRangeME(start, periods) ==
    Let1(LAMBDA m : [k \in 1..periods |-> MonthEndDay(m + (k - 1))], MonthOfDay(start))

\* pd.date_range(start, periods, freq='D')
DateRangeD(start, periods) == [k \in 1..periods |-> start + (k - 1)]

\* pd.date_range(start, periods, freq='W')
DateRangeW(start, periods) == [k \in 1..periods |-> SundayOnOrAfter(start) + 7 * (k - 1)]

(* --------------------------- prepare_data ----------------------------- *)
\* the rows of a frame at the indices in keep, in frame order
TakeRows(rows, keep) ==
    [k \in 1..Cardinality(keep) |->
        rows[CHOOSE i \in keep : Cardinality({j \in keep : j < i}) = k - 1]]

\* variant: keep='last'
drop_duplicates_last(rows) ==
    TakeRows(rows, {i \in 1..Len(rows) :
                      \A j \in (i + 1)..Len(rows) : rows[j].date # rows[i].date})

\* df.drop_duplicates(subset=[date_column]): keep='first', every row whose
\* timestamp occurred in an earlier row is dropped
drop_duplicates(rows) ==
    TakeRows(rows, {i \in 1..Len(rows) :
                      \A j \in 1..(i - 1) : rows[j].date # rows[i].date})

\* df.sort_values(date_column): ascending by date (rows of equal date keep
\* their order)
sort_values(rows) ==
    [k \in 1..Len(rows) |->
        rows[CHOOSE i \in 1..Len(rows) :
                Cardinality({j \in 1..Len(rows) :
                                rows[j].date < rows[i].date
                                \/ (rows[j].date = rows[i].date /\ j < i)}) = k - 1]]

\* Series.interpolate(): linear by position, limit_direction='forward':
\* a null between two values is interpolated, a trailing null repeats the
\* last value, a leading null stays null
interpolate(rows) ==
    [j \in 1..Len(rows) |->
        IF rows[j].value # NULL THEN rows[j]
        ELSE LET before == {p \in 1..(j - 1) : rows[p].value # NULL}
                 after == {q \in (j + 1)..Len(rows) : rows[q].value # NULL}
             IN  IF before = {} THEN rows[j]
                 ELSE LET p == CHOOSE x \in before : \A y \in before : y <= x
                      IN  IF after = {} THEN [rows[j] EXCEPT !.value = rows[p].value]
                          ELSE LET q == CHOOSE x \in after : \A y \in after : x <= y
                               IN  [rows[j] EXCEPT !.value =
                                       rows[p].value
                                       + ((rows[q].value - rows[p].value) * (j - p)) \div (q - p)]]

HasNull(rows) == \E j \in 1..Len(rows) : rows[j].value = NULL

\* the frame after to_datetime / drop_duplicates / sort_values / set_index
\* (models.py:31-40)
Indexed(data) == Let1(sort_values, drop_duplicates(data.rows))

\* models.py:43-55 on the indexed frame df: the series saved in historical_data
Saved(df, hasColumn, old) ==
    IF Len(df) < MinPoints THEN old
    ELSE IF ~hasColumn THEN old
    ELSE Some(df)

\* models.py:43-62 on the indexed frame df: the series returned
Returned(df, hasColumn) ==
    IF Len(df) < MinPoints THEN None
    ELSE IF ~hasColumn THEN None
    ELSE IF HasNull(df) THEN Some(interpolate(df))
    ELSE Some(df)

\* variant: the length check rejects exactly MinPoints rows too
ReturnedLe(df, hasColumn) ==
    IF Len(df) <= MinPoints THEN None
    ELSE IF ~hasColumn THEN None
    ELSE IF HasNull(df) THEN Some(interpolate(df))
    ELSE Some(df)

\* variant: prepare_data does not save the series
prepare_data_historical_unsaved(data, old) == old

\* variant: the series is saved before the length and column checks
prepare_data_historical_early(data, old) ==
    IF ~data.parseable THEN old ELSE Some(Indexed(data))

\* historical_data as prepare_data leaves it: saved before the interpolation
\* (models.py:55), untouched when the call returns early or raises
prepare_data_historical(data, old) ==
    IF ~data.parseable THEN old
    ELSE Let1(LAMBDA df : Saved(df, data.hasColumn, old), Indexed(data))

\* variant: the length check rejects exactly MinPoints rows too
prepare_data_le(data) ==
    IF ~data.parseable THEN None
    ELSE Let1(LAMBDA df : ReturnedLe(df, data.hasColumn), Indexed(data))

\* the value prepare_data returns: None (unparseable date, too few rows, no
\* value column) or the interpolated series
prepare_data(data) ==
    IF ~data.parseable THEN None
    ELSE Let1(LAMBDA df : Returned(df, data.hasColumn), Indexed(data))

\* the caller's frame as an object: its rows and the dtype of its date column
\* (timestamps as date_range gives them, or strings)
DateDtypes == {"datetime64[ns]", "object"}
Frame(data) ==
    [rows |-> data.rows,
     date_dtype |-> IF data.parseable THEN "datetime64[ns]" ELSE "object"]

\* pd.to_datetime assigned to the date column (models.py:31)
to_datetime(frame) == [frame EXCEPT !.date_dtype = "datetime64[ns]"]

\* variant: df = data, both names for the caller's object
working_frame_alias == "caller"

\* df = data.copy() (models.py:28): df names an object of its own
working_frame == "df"

\* the caller's frame after prepare_data: the assignment to the date column
\* (models.py:31) is the one write into the object df names; drop_duplicates,
\* sort_values, set_index and df[[value_column]] give new objects, and the
\* interpolation is assigned into the last of them (models.py:34-60)
prepare_data_caller(frame, parseable) ==
    LET heap == [caller |-> frame, df |-> frame]
        written == IF parseable
                   THEN [heap EXCEPT ![working_frame] = to_datetime(heap[working_frame])]
                   ELSE heap
    IN  written.caller

(* ---------------------- _simple_trend_forecast ------------------------ *)
RECURSIVE SumTo(_, _)
SumTo(f, n) == IF n = 0 THEN 0 ELSE f[n] + SumTo(f, n - 1)

\* slope * fx + intercept for np.polyfit(arange(n), values, 1), as the exact
\* rational <<num, den>>
polyfit_at(values, fx) ==
    LET n == Len(values)
        Sx == SumTo([i \in 1..n |-> i - 1], n)
        Sxx == SumTo([i \in 1..n |-> (i - 1) * (i - 1)], n)
        Sy == SumTo(values, n)
        Sxy == SumTo([i \in 1..n |-> (i - 1) * values[i]], n)
        D == n * Sxx - Sx * Sx
    IN  <<(n * Sxy - Sx * Sy) * (n * fx - Sx) + Sy * D, n * D>>

\* variant: the monthly range starts the day after the last timestamp
forecast_dates_next_day(last_date, forecast_length, frequency) ==
    IF frequency = "D" THEN DateRangeD(last_date + 1, forecast_length)
    ELSE IF frequency = "ME"
    THEN Let1(LAMBDA start : DateRangeME(start, forecast_length), last_date + 1)
    ELSE DateRangeW(last_date + FallbackDays, forecast_length)

\* the index of the forecast frame (models.py:241-251)
forecast_dates(last_date, forecast_length, frequency) ==
    IF frequency = "D" THEN DateRangeD(last_date + 1, forecast_length)
    ELSE IF frequency = "ME"
    THEN Let1(LAMBDA start : DateRangeME(start, forecast_length), MonthBegin1(last_date))
    ELSE DateRangeW(last_date + FallbackDays, forecast_length)

\* variant: a line is fitted whatever the number of points
forecast_values_always_fit(values, forecast_length) ==
    IF Len(values) = 0 THEN None
    ELSE IF \E i \in 1..Len(values) : values[i] = NULL
    THEN Some([k \in 1..forecast_length |-> NaN])
    ELSE Some([k \in 1..forecast_length |-> polyfit_at(values, Len(values) + k - 1)])

\* variant: future_x starts at the last historical index
forecast_values_from_last(values, forecast_length) ==
    IF Len(values) = 0 THEN None
    ELSE IF Len(values) < 2
    THEN Some([k \in 1..forecast_length |->
                 IF values[Len(values)] = NULL THEN NaN ELSE <<values[Len(values)], 1>>])
    ELSE IF \E i \in 1..Len(values) : values[i] = NULL
    THEN Some([k \in 1..forecast_length |-> NaN])
    ELSE Some([k \in 1..forecast_length |-> polyfit_at(values, Len(values) + k - 2)])

\* variant: future_x is one element short
forecast_values_short(values, forecast_length) ==
    IF Len(values) = 0 THEN None
    ELSE IF Len(values) < 2
    THEN Some([k \in 1..forecast_length |->
                 IF values[Len(values)] = NULL THEN NaN ELSE <<values[Len(values)], 1>>])
    ELSE IF \E i \in 1..Len(values) : values[i] = NULL
    THEN Some([k \in 1..(forecast_length - 1) |-> NaN])
    ELSE Some([k \in 1..(forecast_length - 1) |-> polyfit_at(values, Len(values) + k - 1)])

\* variant: a fit that rejects NaN raises
forecast_values_raise(values, forecast_length) ==
    IF Len(values) = 0 THEN None
    ELSE IF Len(values) < 2
    THEN Some([k \in 1..forecast_length |->
                 IF values[Len(values)] = NULL THEN NaN ELSE <<values[Len(values)], 1>>])
    ELSE IF \E i \in 1..Len(values) : values[i] = NULL
    THEN None
    ELSE Some([k \in 1..forecast_length |-> polyfit_at(values, Len(values) + k - 1)])

\* the forecast values (models.py:227-238); None stands for a raised error
\* (values[-1] of an empty array).  np.polyfit solves the least-squares
\* problem for y containing NaN without an error: the NaN propagates into
\* both coefficients, so every forecast value is NaN
forecast_values(values, forecast_length) ==
    IF Len(values) = 0 THEN None
    ELSE IF Len(values) < 2
    THEN Some([k \in 1..forecast_length |->
                 IF values[Len(values)] = NULL THEN NaN ELSE <<values[Len(values)], 1>>])
    ELSE IF \E i \in 1..Len(values) : values[i] = NULL
    THEN Some([k \in 1..forecast_length |-> NaN])
    ELSE Some([k \in 1..forecast_length |-> polyfit_at(values, Len(values) + k - 1)])

\* pd.DataFrame(forecast_values, index=dates, columns=['forecast_trend'])
\* (models.py:254-258); the constructor raises on a length mismatch
forecast_df(vals, dates) ==
    IF IsNone(vals) THEN None
    ELSE IF Len(Get(vals)) # Len(dates) THEN None
    ELSE Some([source |-> "trend",
               rows |-> [k \in 1..Len(dates) |->
                           [date |-> dates[k], value |-> Get(vals)[k]]]])

\* _simple_trend_forecast(): None or the forecast frame; an error in the
\* values is raised before the index is built
simple_trend_forecast(hist, forecast_length, frequency) ==
    IF IsNone(hist) THEN None
    ELSE Let1(LAMBDA vals :
                IF IsNone(vals) THEN None
                ELSE Let1(LAMBDA dates : forecast_df(vals, dates),
                          forecast_dates(Get(hist)[Len(Get(hist))].date, forecast_length,
                                         frequency)),
              Let1(LAMBDA values : forecast_values(values, forecast_length),
                   [i \in 1..Len(Get(hist)) |-> Get(hist)[i].value]))

(* ------------------------------ inputs -------------------------------- *)
Orders == {"asc", "desc", "rotated"}
Frequencies == {"D", "ME", "W"}
SmallSubsets(S, k) == {T \in SUBSET S : Cardinality(T) <= k}

\* position of raw row i in the date order
RowPos(order, n, i) ==
    IF order = "asc" THEN i
    ELSE IF order = "desc" THEN n + 1 - i
    ELSE ((i + (n \div 2) - 1) % n) + 1

RECURSIVE RowDate(_, _, _, _)
\* rows in dups repeat the timestamp of the row before them; the others carry
\* the month end of their position
RowDate(order, n, dups, i) ==
    IF i \in dups THEN RowDate(order, n, dups, i - 1)
    ELSE MonthEndDay(RowPos(order, n, i) - 1)

RawRows(order, n, dups, nulls) ==
    [i \in 1..n |-> [date |-> RowDate(order, n, dups, i),
                     value |-> IF i \in nulls THEN NULL ELSE ValueUnit * i]]

\* the raw frames handed to create_forecast
RawInputs ==
    {[rows |-> RawRows(o, n, d, z), parseable |-> p, hasColumn |-> c] :
        o \in Orders, n \in {MaxRows - 1, MaxRows},
        d \in SmallSubsets(2..MaxRows, MaxDups), z \in SmallSubsets(1..MaxRows, MaxNulls),
        p \in BOOLEAN, c \in BOOLEAN}

(* --------------------------- model selection -------------------------- *)
Complexities == {"simple", "medium", "complex", "all", "custom"}
DefaultComplexity == "medium"   \* models.py:295 model_complexity='medium'

\* variant: short series get the smallest model list whatever the complexity
get_model_list_by_length(complexity, data_length) ==
    IF complexity = "simple" \/ data_length <= 12 THEN "superfast"
    ELSE IF complexity = "medium" THEN "fast"
    ELSE IF complexity = "complex" THEN "default"
    ELSE "all"

\* get_model_list (models.py:68-81)
get_model_list(complexity, data_length) ==
    IF complexity = "simple" THEN "superfast"
    ELSE IF complexity = "medium" THEN "fast"
    ELSE IF complexity = "complex" THEN "default"
    ELSE "all"

\* variant: the thresholds are exclusive
training_effort_lt(data_length) ==
    IF data_length < 12 THEN [generations |-> 1, validations |-> 1]
    ELSE IF data_length < 24 THEN [generations |-> 2, validations |-> 2]
    ELSE [generations |-> 3, validations |-> 3]

\* generations and validations by data_length (models.py:96-105)
training_effort(data_length) ==
    IF data_length <= 12 THEN [generations |-> 1, validations |-> 1]
    ELSE IF data_length <= 24 THEN [generations |-> 2, validations |-> 2]
    ELSE [generations |-> 3, validations |-> 3]

\* model_list, max_generations and num_validations handed to AutoTS
\* (models.py:91-128)
select(complexity, series) ==
    Some([data_length |-> Len(series),
          model_list |-> get_model_list(complexity, Len(series)),
          max_generations |-> training_effort(Len(series)).generations,
          num_validations |-> training_effort(Len(series)).validations])

(* ------------------------------ library ------------------------------- *)
\* what AutoTS.fit() can do: raise, or return a model whose best_model_name
\* is a model name or empty
PrimaryFitOutcomes == {"raise", ZeroesNaive, "ETS", NoName}
FallbackFitOutcomes == {"raise", "LastValueNaive", "ETS", ZeroesNaive, NoName}
\* what model.predict() can do: return a prediction with a forecast, return
\* nothing usable, or raise
PredictOutcomes == {"forecast", "unusable", "raise"}

NoModel == None
Fitted(tier, name) == Some([tier |-> tier, best_model_name |-> name])
AutoTSForecast == Some([source |-> "autots"])

(* ------------------------------- state -------------------------------- *)
VARIABLES
    data,                \* the raw frame of the request
    forecast_length,     \* self.forecast_length
    frequency,           \* self.frequency
    model,               \* self.model
    best_model_name,     \* self.best_model_name
    training_successful, \* self.training_successful
    historical_data,     \* self.historical_data
    pc,                  \* position of the request in create_forecast
    ts_data,             \* what the last prepare_data call returned
    reprepare,           \* the fallback tier was entered from train's except
    forecast,            \* the forecast create_forecast returns
    succeeded,           \* the flag create_forecast returns
    calls,               \* the tier calls made so far and what each gave
    escaped,             \* an error left train / predict / create_forecast
    model_complexity,    \* self.model_complexity
    selection,           \* the arguments train chose for the primary AutoTS
    authenticated,       \* st.session_state.authenticated
    username,            \* st.session_state.username
    tokens,              \* st.session_state.tokens
    users,               \* the content of users.json
    caller_frame,        \* the frame object the caller handed to train
    widgets              \* the widget values of the last run of the sidebar

vars == <<data, forecast_length, frequency, model, best_model_name,
          training_successful, historical_data, pc, ts_data, reprepare,
          forecast, succeeded, calls, escaped, model_complexity, selection,
          authenticated, username, tokens, users, caller_frame, widgets>>

inputVars == <<data, forecast_length, frequency, model_complexity>>
sessionVars == <<authenticated, username, tokens, users, widgets>>
forecastVars == <<data, forecast_length, frequency, model, best_model_name,
                  training_successful, historical_data, pc, ts_data, reprepare,
                  forecast, succeeded, calls, escaped, model_complexity, selection,
                  caller_frame>>

\* a dict without keys
EmptyDict == [k \in {} |-> k]

\* init_session_state on a new session (auth.py:8-14), no users.json yet
\* (auth.py:16-20), no widget touched
InitSession ==
    /\ authenticated = FALSE
    /\ username = ""
    /\ tokens = EmptyDict
    /\ users = EmptyDict
    /\ widgets = [run |-> "none"]

Call(c, r) == [call |-> c, result |-> r]

\* create_forecast has built a fresh UniversalForecastModel
Init ==
    /\ data \in RawInputs
    /\ forecast_length \in 1..MaxHorizon
    /\ frequency \in Frequencies
    /\ model = NoModel
    /\ best_model_name = NoneName
    /\ training_successful = FALSE
    /\ historical_data = None
    /\ pc = "NotStarted"
    /\ ts_data = None
    /\ reprepare = FALSE
    /\ forecast = None
    /\ succeeded = FALSE
    /\ calls = <<>>
    /\ escaped = FALSE
    /\ model_complexity = DefaultComplexity
    /\ selection = None
    /\ caller_frame = Frame(data)
    /\ InitSession

(* ------------------------------- train -------------------------------- *)
\* variant: any non-empty name is accepted
primary_accepts_any(name) == name # NoName

\* the test train applies to the fitted primary model (models.py:134-136)
primary_accepts(name) == name # NoName /\ name # ZeroesNaive

\* variant: the fallback tier rejects the zero baseline as the primary does
fallback_accepts_nondegenerate(name) == name # NoName /\ name # ZeroesNaive

\* the test _train_simple_fallback applies (models.py:179-180)
fallback_accepts(name) == name # NoName

\* what the except clauses do with a library error: run the fallback tier,
\* return False / the trend forecast, or (no clause) let the error through
train_except_skip == "return False"   \* variant: no second tier on an error
train_except == "fallback"            \* models.py:148-151
fallback_except == "return False"     \* models.py:190-192
predict_except_none == "propagate"    \* variant: no except clause
predict_except == "trend"             \* models.py:212-215

\* create_forecast calls train, which calls prepare_data (models.py:305, 85-89)
TrainPrepare ==
    /\ pc = "NotStarted"
    /\ ts_data' = prepare_data(data)
    /\ historical_data' = prepare_data_historical(data, historical_data)
    /\ pc' = IF IsNone(prepare_data(data)) THEN "TrendExtrapolation" ELSE "PrimaryTraining"
    /\ caller_frame' = prepare_data_caller(caller_frame, data.parseable)
    /\ UNCHANGED <<sessionVars, inputVars, model, best_model_name, training_successful, reprepare,
                   forecast, succeeded, calls, escaped, selection>>

\* the primary tier: AutoTS(...).fit(ts_data) and the check of its result
\* (models.py:116-151)
PrimaryFit ==
    /\ pc = "PrimaryTraining"
    /\ selection' = select(model_complexity, Get(ts_data))
    /\ \E o \in PrimaryFitOutcomes :
        /\ calls' = Append(calls, Call("primary", o))
        /\ IF o = "raise"
           THEN /\ reprepare' = (train_except = "fallback")
                /\ pc' = IF train_except = "fallback" THEN "FallbackTraining"
                         ELSE IF train_except = "return False" THEN "TrendExtrapolation"
                         ELSE "Done"
                /\ escaped' = (train_except = "propagate")
                /\ UNCHANGED <<model, best_model_name, training_successful>>
           ELSE /\ model' = Fitted("primary", o)
                /\ IF primary_accepts(o)
                   THEN /\ best_model_name' = o
                        /\ training_successful' = TRUE
                        /\ pc' = "Predict"
                   ELSE /\ pc' = "FallbackTraining"
                        /\ UNCHANGED <<best_model_name, training_successful>>
                /\ UNCHANGED <<reprepare, escaped>>
    /\ UNCHANGED <<sessionVars, caller_frame, inputVars, historical_data, ts_data, forecast, succeeded>>

\* the fallback tier: _train_simple_fallback (models.py:153-192); entered
\* from the except clause it prepares the raw data again
FallbackFit ==
    /\ pc = "FallbackTraining"
    /\ LET ts == IF reprepare THEN prepare_data(data) ELSE ts_data
           hist == IF reprepare THEN prepare_data_historical(data, historical_data)
                   ELSE historical_data
       IN  /\ ts_data' = ts
           /\ historical_data' = hist
           /\ IF IsNone(ts)
              THEN /\ pc' = "TrendExtrapolation"
                   /\ UNCHANGED <<model, best_model_name, training_successful, calls,
                                  escaped>>
              ELSE \E o \in FallbackFitOutcomes :
                    /\ calls' = Append(calls, Call("fallback", o))
                    /\ IF o = "raise"
                       THEN /\ pc' = IF fallback_except = "return False"
                                     THEN "TrendExtrapolation" ELSE "Done"
                            /\ escaped' = (fallback_except = "propagate")
                            /\ UNCHANGED <<model, best_model_name, training_successful>>
                       ELSE /\ model' = Fitted("fallback", o)
                            /\ IF fallback_accepts(o)
                               THEN /\ best_model_name' = o \o FallbackSuffix
                                    /\ training_successful' = TRUE
                                    /\ pc' = "Predict"
                               ELSE /\ pc' = "TrendExtrapolation"
                                    /\ UNCHANGED <<best_model_name, training_successful>>
                            /\ UNCHANGED escaped
    /\ caller_frame' = IF reprepare
                       THEN prepare_data_caller(caller_frame, data.parseable)
                       ELSE caller_frame
    /\ UNCHANGED <<sessionVars, inputVars, reprepare, forecast, succeeded, selection>>

(* ------------------------ predict / create_forecast -------------------- *)
TrendResult(f) == IF IsNone(f) THEN "None" ELSE "frame"

\* predict() (models.py:194-215) and the return of its result
PredictCall ==
    /\ \E o \in PredictOutcomes :
        LET trend == simple_trend_forecast(historical_data, forecast_length, frequency)
            viaTrend == <<Call("predict", o), Call("trend", TrendResult(trend))>>
        IN  IF ~training_successful \/ IsNone(model)
            THEN /\ forecast' = trend
                 /\ calls' = Append(calls, Call("trend", TrendResult(trend)))
                 /\ succeeded' = TRUE
                 /\ UNCHANGED escaped
            ELSE IF o = "forecast"
            THEN /\ forecast' = AutoTSForecast
                 /\ calls' = Append(calls, Call("predict", o))
                 /\ succeeded' = TRUE
                 /\ UNCHANGED escaped
            ELSE IF o = "unusable" \/ predict_except = "trend"
            THEN /\ forecast' = trend
                 /\ calls' = calls \o viaTrend
                 /\ succeeded' = TRUE
                 /\ UNCHANGED escaped
            ELSE /\ calls' = Append(calls, Call("predict", o))
                 /\ escaped' = TRUE
                 /\ UNCHANGED <<forecast, succeeded>>
    /\ pc' = "Done"
    /\ UNCHANGED <<sessionVars, caller_frame, inputVars, model, best_model_name, training_successful,
                   historical_data, ts_data, reprepare, selection>>

\* train returned True: create_forecast returns predict() and True
\* (models.py:307-309)
Predict ==
    /\ pc = "Predict"
    /\ PredictCall

\* train returned False: create_forecast returns _simple_trend_forecast() and
\* whether it is not None (models.py:310-313)
TrendExtrapolation ==
    /\ pc = "TrendExtrapolation"
    /\ forecast' = simple_trend_forecast(historical_data, forecast_length, frequency)
    /\ succeeded' = ~IsNone(forecast')
    /\ calls' = Append(calls, Call("trend", TrendResult(forecast')))
    /\ pc' = "Done"
    /\ UNCHANGED <<sessionVars, caller_frame, inputVars, model, best_model_name, training_successful,
                   historical_data, ts_data, reprepare, escaped, selection>>

Next ==
    \/ TrainPrepare
    \/ PrimaryFit
    \/ FallbackFit
    \/ Predict
    \/ TrendExtrapolation

Spec == Init /\ [][Next]_vars

\* the requests of the fair specification: the same raw frames with at most one
\* repeated timestamp and one null, every frequency, the longest horizon
FairInputs ==
    {[rows |-> RawRows(o, n, d, z), parseable |-> p, hasColumn |-> c] :
        o \in Orders, n \in {MaxRows - 1, MaxRows},
        d \in SmallSubsets(2..MaxRows, 1), z \in SmallSubsets(1..MaxRows, 1),
        p \in BOOLEAN, c \in BOOLEAN}

InitFair ==
    /\ data \in FairInputs
    /\ forecast_length = MaxHorizon
    /\ frequency \in Frequencies
    /\ model = NoModel
    /\ best_model_name = NoneName
    /\ training_successful = FALSE
    /\ historical_data = None
    /\ pc = "NotStarted"
    /\ ts_data = None
    /\ reprepare = FALSE
    /\ forecast = None
    /\ succeeded = FALSE
    /\ calls = <<>>
    /\ escaped = FALSE
    /\ model_complexity = DefaultComplexity
    /\ selection = None
    /\ caller_frame = Frame(data)
    /\ InitSession

\* a request runs synchronously to its end: no step waits for anything
FairSpec == InitFair /\ [][Next]_vars /\ WF_vars(Next)

\* the same requests on frames whose date column holds timestamps or strings
\* (an unparseable date is a string)
InitFrame ==
    /\ data \in FairInputs
    /\ forecast_length = MaxHorizon
    /\ frequency = "ME"
    /\ model = NoModel
    /\ best_model_name = NoneName
    /\ training_successful = FALSE
    /\ historical_data = None
    /\ pc = "NotStarted"
    /\ ts_data = None
    /\ reprepare = FALSE
    /\ forecast = None
    /\ succeeded = FALSE
    /\ calls = <<>>
    /\ escaped = FALSE
    /\ model_complexity = DefaultComplexity
    /\ selection = None
    /\ caller_frame \in {[rows |-> data.rows, date_dtype |-> t] :
                            t \in IF data.parseable THEN DateDtypes ELSE {"object"}}
    /\ InitSession

FrameSpec == InitFrame /\ [][Next]_vars

(* ------------------------------ metadata ------------------------------ *)
StatusTrained == "trained successfully"          \* models.py:278 'status'
StatusNotTrained == "not trained successfully"   \* models.py:271 'status'
UnknownModel == "unknown"                        \* models.py:272 'best_model'

\* get_model_info (models.py:267-293) without the optional score fields
get_model_info(ok, name, length, freq, complexity) ==
    IF ~ok
    THEN [status |-> StatusNotTrained,
          best_model |-> UnknownModel,
          forecast_length |-> length,
          model_complexity |-> complexity]
    ELSE [status |-> StatusTrained,
          best_model |-> name,
          forecast_length |-> length,
          frequency |-> freq,
          model_complexity |-> complexity]

(* ------------------- the model selection on its own -------------------- *)
\* a prepared monthly series of n rows
MonthlySeries(n) ==
    [i \in 1..n |-> [date |-> MonthEndDay(i - 1), value |-> ValueUnit * i]]

\* train has prepared a series of MinPoints..MaxLength rows
InitSelect ==
    /\ \E n \in MinPoints..MaxLength : ts_data = Some(MonthlySeries(n))
    /\ model_complexity \in Complexities
    /\ data = [rows |-> <<>>, parseable |-> TRUE, hasColumn |-> TRUE]
    /\ forecast_length = MaxHorizon
    /\ frequency = "ME"
    /\ model = NoModel
    /\ best_model_name = NoneName
    /\ training_successful = FALSE
    /\ historical_data = ts_data
    /\ pc = "Select"
    /\ reprepare = FALSE
    /\ forecast = None
    /\ succeeded = FALSE
    /\ calls = <<>>
    /\ escaped = FALSE
    /\ selection = None
    /\ caller_frame = Frame(data)
    /\ InitSession

\* train between prepare_data and the fit (models.py:91-128)
Select ==
    /\ pc = "Select"
    /\ selection' = select(model_complexity, Get(ts_data))
    /\ pc' = "Selected"
    /\ UNCHANGED <<sessionVars, caller_frame, inputVars, model, best_model_name, training_successful,
                   historical_data, ts_data, reprepare, forecast, succeeded, calls,
                   escaped>>

SelectSpec == InitSelect /\ [][Select]_vars

(* ---------------- _simple_trend_forecast called directly --------------- *)
\* the last historical timestamps: a month end, a month start, days inside a
\* month (the second one a Sunday), a year end and the end of a leap February
LastDates ==
    {MonthEndDay(5), MonthStartDay(6), MonthStartDay(6) + 14, MonthStartDay(6) + 22,
     MonthEndDay(11), MonthEndDay(13)}
Intercepts == {ValueUnit, 5 * ValueUnit}
Slopes == {0 - ValueUnit, 0, 2 * ValueUnit}

\* a history of n rows ending at last whose value at index i is a + b * i
LinearHistory(n, a, b, last) ==
    [i \in 1..n |-> [date |-> last - 30 * (n - i), value |-> a + b * (i - 1)]]

\* an instance whose historical_data holds a history of 0..MaxHist rows
InitTrend ==
    /\ \E n \in 0..MaxHist, a \in Intercepts, b \in Slopes, last \in LastDates :
            historical_data = Some(LinearHistory(n, a, b, last))
    /\ forecast_length \in 1..MaxHorizon
    /\ frequency \in Frequencies
    /\ model_complexity = DefaultComplexity
    /\ data = [rows |-> <<>>, parseable |-> TRUE, hasColumn |-> TRUE]
    /\ model = NoModel
    /\ best_model_name = NoneName
    /\ training_successful = FALSE
    /\ pc = "TrendCall"
    /\ ts_data = None
    /\ reprepare = FALSE
    /\ forecast = None
    /\ succeeded = FALSE
    /\ calls = <<>>
    /\ escaped = FALSE
    /\ selection = None
    /\ caller_frame = Frame(data)
    /\ InitSession

\* _simple_trend_forecast() (models.py:217-265)
TrendCall ==
    /\ pc = "TrendCall"
    /\ LET trend == simple_trend_forecast(historical_data, forecast_length, frequency)
       IN  /\ forecast' = trend
           /\ calls' = Append(calls, Call("trend", TrendResult(trend)))
    /\ pc' = "TrendDone"
    /\ UNCHANGED <<sessionVars, caller_frame, inputVars, model, best_model_name, training_successful,
                   historical_data, ts_data, reprepare, succeeded, escaped, selection>>

TrendSpec == InitTrend /\ [][TrendCall]_vars

(* ------- _simple_trend_forecast reached by a request or directly ------- *)
InitUse == InitFair \/ InitTrend

NextUse ==
    \/ TrainPrepare
    \/ PrimaryFit
    \/ FallbackFit
    \/ Predict
    \/ TrendExtrapolation
    \/ TrendCall

UseSpec == InitUse /\ [][NextUse]_vars

(* ------------------- one instance trained repeatedly ------------------- *)
\* frames of MaxRows - 1 rows in date order, with or without a repeated timestamp
ReuseInputs ==
    {[rows |-> RawRows("asc", MaxRows - 1, d, {}), parseable |-> p, hasColumn |-> c] :
        d \in {{}, {2}}, p \in BOOLEAN, c \in BOOLEAN}

\* a fresh UniversalForecastModel (models.py:13-23) about to be trained
InitReuse ==
    /\ data \in ReuseInputs
    /\ forecast_length = MaxHorizon
    /\ frequency = "ME"
    /\ model_complexity = DefaultComplexity
    /\ model = NoModel
    /\ best_model_name = NoneName
    /\ training_successful = FALSE
    /\ historical_data = None
    /\ pc = "NotStarted"
    /\ ts_data = None
    /\ reprepare = FALSE
    /\ forecast = None
    /\ succeeded = FALSE
    /\ calls = <<>>
    /\ escaped = FALSE
    /\ selection = None
    /\ caller_frame = Frame(data)
    /\ InitSession

\* the caller calls train() on the same instance with another frame: the
\* fields of the instance stay as the earlier calls left them
Retrain ==
    /\ pc \in {"Predict", "TrendExtrapolation", "Done"}
    /\ data' \in ReuseInputs
    /\ pc' = "NotStarted"
    /\ ts_data' = None
    /\ reprepare' = FALSE
    /\ forecast' = None
    /\ succeeded' = FALSE
    /\ calls' = <<>>
    /\ caller_frame' = Frame(data')
    /\ UNCHANGED <<sessionVars, forecast_length, frequency, model_complexity, model, best_model_name,
                   training_successful, historical_data, escaped, selection>>

\* train returned False and the caller calls predict()
PredictAfterFalse ==
    /\ pc = "TrendExtrapolation"
    /\ PredictCall

NextReuse ==
    \/ TrainPrepare
    \/ PrimaryFit
    \/ FallbackFit
    \/ Predict
    \/ TrendExtrapolation
    \/ Retrain
    \/ PredictAfterFalse

ReuseSpec == InitReuse /\ [][NextReuse]_vars

(* --------------------------- authentication ---------------------------- *)
Usernames == {"", "alice", "bob"}
Passwords == {"", "pw1", "pw2"}
TokenInputs == {"", "tok1", "tok2"}

\* hashlib.sha256(password.encode()).hexdigest(): distinct passwords give
\* distinct digests, and a digest is not the password
Sha256(password) == <<"sha256", password>>

\* save_user (auth.py:22-28): the file with the entry of the user replaced
save_user(file, user, password) ==
    [u \in DOMAIN file \cup {user} |->
        IF u = user THEN [password |-> Sha256(password)] ELSE file[u]]

\* authenticate (auth.py:30-34)
authenticate(file, user, password) ==
    IF user \in DOMAIN file THEN file[user].password = Sha256(password) ELSE FALSE

\* tokens[key] = value when the text input is not empty (auth.py:80-83)
set_token(dict, key, value) ==
    IF value = "" THEN dict
    ELSE [k \in DOMAIN dict \cup {key} |-> IF k = key THEN value ELSE dict[k]]

\* variant: logout keeps the tokens
logout_tokens_kept(dict) == dict

\* st.session_state.tokens = {} (auth.py:88)
logout_tokens(dict) == EmptyDict

\* no forecast request is running
NoRequest ==
    /\ data = [rows |-> <<>>, parseable |-> TRUE, hasColumn |-> TRUE]
    /\ forecast_length = MaxHorizon
    /\ frequency = "ME"
    /\ model_complexity = DefaultComplexity
    /\ model = NoModel
    /\ best_model_name = NoneName
    /\ training_successful = FALSE
    /\ historical_data = None
    /\ pc = "Sidebar"
    /\ ts_data = None
    /\ reprepare = FALSE
    /\ forecast = None
    /\ succeeded = FALSE
    /\ calls = <<>>
    /\ escaped = FALSE
    /\ selection = None
    /\ caller_frame = Frame(data)

InitAuth == NoRequest /\ InitSession

\* a run of render_auth_sidebar with the login button pressed (auth.py:41-57)
LoginClick ==
    /\ pc = "Sidebar"
    /\ ~authenticated
    /\ \E user \in Usernames, password \in Passwords :
        /\ widgets' = [run |-> "login", login_user |-> user, login_pass |-> password]
        /\ IF user # "" /\ password # "" /\ authenticate(users, user, password)
           THEN /\ authenticated' = TRUE
                /\ username' = user
           ELSE UNCHANGED <<authenticated, username>>
    /\ UNCHANGED <<forecastVars, tokens, users>>

\* a run with the registration button pressed (auth.py:59-72)
RegisterClick ==
    /\ pc = "Sidebar"
    /\ ~authenticated
    /\ \E new_user \in Usernames, new_pass \in Passwords, confirm_pass \in Passwords :
        /\ widgets' = [run |-> "register", reg_user |-> new_user, reg_pass |-> new_pass,
                       confirm_pass |-> confirm_pass]
        /\ users' = IF new_user # "" /\ new_pass # "" /\ new_pass = confirm_pass
                    THEN save_user(users, new_user, new_pass)
                    ELSE users
    /\ UNCHANGED <<forecastVars, authenticated, username, tokens>>

\* a run of an authenticated session: the token inputs are stored, then the
\* logout button, when pressed, clears the session (auth.py:73-89)
AuthenticatedRun ==
    /\ pc = "Sidebar"
    /\ authenticated
    /\ \E avito_token \in TokenInputs, hh_token \in TokenInputs, logout \in BOOLEAN :
        /\ widgets' = [run |-> "authenticated", avito_token |-> avito_token,
                       hh_token |-> hh_token, logout |-> logout]
        /\ LET stored == set_token(set_token(tokens, "avito", avito_token), "hh", hh_token)
           IN  IF logout
               THEN /\ authenticated' = FALSE
                    /\ username' = ""
                    /\ tokens' = logout_tokens(stored)
               ELSE /\ tokens' = stored
                    /\ UNCHANGED <<authenticated, username>>
    /\ UNCHANGED <<forecastVars, users>>

NextAuth ==
    \/ LoginClick
    \/ RegisterClick
    \/ AuthenticatedRun

AuthSpec == InitAuth /\ [][NextAuth]_vars

(* ============================== claims ================================= *)
CallNames == [i \in 1..Len(calls) |-> calls[i].call]
Called(c) == \E i \in 1..Len(calls) : calls[i].call = c
IsTrendFrame(f) == ~IsNone(f) /\ Get(f).source = "trend"
StrictlyIncreasing(rows) == \A i \in 1..(Len(rows) - 1) : rows[i].date < rows[i + 1].date
Prepared == pc # "NotStarted" /\ ~IsNone(ts_data)
Rejected == pc # "NotStarted" /\ IsNone(ts_data)
UniqueDates(rows) == {rows[i].date : i \in 1..Len(rows)}
FallbackNames == {n \o FallbackSuffix : n \in FallbackFitOutcomes \ {"raise", NoName}}
PrimaryFailed == Len(calls) >= 1 /\ calls[1].call = "primary"
                 /\ calls[1].result \in {"raise", ZeroesNaive, NoName}
TrainReturned == pc \in {"Predict", "TrendExtrapolation", "Done"}

\* C1: when data preparation succeeded and both the primary and the fallback
\* tier failed, the finished request has succeeded = True and a trend forecast
\* of exactly forecast_length rows with strictly increasing timestamps
C1_TrendAfterBothTiersFail ==
    (pc = "Done" /\ Prepared /\ ~training_successful)
        => /\ succeeded
           /\ IsTrendFrame(forecast)
           /\ Len(Get(forecast).rows) = forecast_length
           /\ StrictlyIncreasing(Get(forecast).rows)

C1_Witness ==
    /\ pc = "Done"
    /\ CallNames = <<"primary", "fallback", "trend">>
    /\ calls[1].result = "raise" /\ calls[2].result = NoName
    /\ succeeded /\ IsTrendFrame(forecast)
    /\ Len(Get(forecast).rows) >= 2

\* C2: once the primary fit has selected ZeroesNaive, best_model_name is never
\* the unsuffixed ZeroesNaive, and when train has returned the fallback tier
\* has run and either best_model_name carries the fallback suffix or
\* training_successful is False
C2_ZeroBaselineNeverPrimary ==
    (Len(calls) >= 1 /\ calls[1] = Call("primary", ZeroesNaive))
        => /\ best_model_name # ZeroesNaive
           /\ TrainReturned
                => /\ Len(calls) >= 2 /\ calls[2].call = "fallback"
                   /\ best_model_name \in FallbackNames \/ ~training_successful

C2_Witness ==
    /\ pc = "Done"
    /\ calls[1] = Call("primary", ZeroesNaive)
    /\ calls[2] = Call("fallback", "ETS")
    /\ training_successful
    /\ best_model_name = "ETS" \o FallbackSuffix

\* the tiers run in the order primary, fallback, trend, each at most once; the
\* fallback tier only after a failed primary tier; trend extrapolation after a
\* failed primary tier only once the fallback tier has been tried
TierOrder ==
    /\ \A i, j \in 1..Len(calls) : (i # j) => (calls[i].call # calls[j].call)
    /\ \A i \in 1..Len(calls) :
        /\ calls[i].call = "primary" => i = 1
        /\ calls[i].call = "fallback" => (i = 2 /\ PrimaryFailed)
        /\ (calls[i].call = "trend" /\ PrimaryFailed)
              => \E j \in 1..(i - 1) : calls[j].call = "fallback"

\* C3: in every run of a request the tiers are attempted in the fixed order,
\* each at most once, and the request reaches its terminal outcome
C3_TierOrderAndTermination == [](TierOrder) /\ <>(pc = "Done")

C3_Witness ==
    /\ pc = "Done"
    /\ CallNames = <<"primary", "fallback", "trend">>
    /\ calls[1].result = ZeroesNaive /\ calls[2].result = "raise"

\* C4: no library error leaves train, predict or create_forecast; after an
\* error in the primary fit the fallback tier is run, and after an error in
\* the fallback fit or in predict the trend extrapolation is run
C4_ErrorsNeverPropagate ==
    /\ ~escaped
    /\ \A i \in 1..Len(calls) :
        calls[i].result = "raise" =>
            /\ (calls[i].call = "primary" /\ TrainReturned)
                  => \E j \in (i + 1)..Len(calls) : calls[j].call = "fallback"
            /\ (calls[i].call \in {"fallback", "predict"} /\ pc = "Done")
                  => \E j \in (i + 1)..Len(calls) : calls[j].call = "trend"

C4_Witness ==
    /\ pc = "Done"
    /\ Len(calls) = 4
    /\ calls[1] = Call("primary", "raise")
    /\ calls[2] = Call("fallback", "LastValueNaive")
    /\ calls[3] = Call("predict", "raise")
    /\ calls[4] = Call("trend", "frame")

\* C5: when prepare_data rejects the input, the finished request has invoked
\* neither fit, its forecast is None and succeeded is False
C5_PrepareRejectAborts ==
    Rejected
        => /\ ~Called("primary") /\ ~Called("fallback")
           /\ IsNone(model)
           /\ pc = "Done" => (IsNone(forecast) /\ ~succeeded)

C5_Witness ==
    /\ pc = "Done" /\ Rejected
    /\ data.parseable /\ ~data.hasColumn
    /\ Cardinality(UniqueDates(data.rows)) >= MinPoints
    /\ IsNone(forecast) /\ ~succeeded

\* C6: a finished request has succeeded = False only if prepare_data rejected
\* the input; when prepare_data returned a series the request ends with
\* succeeded = True and a forecast, whatever the tiers did and also when the
\* value column had nulls
C6_FailureOnlyOnRejectedData ==
    pc = "Done"
        => /\ ~succeeded => IsNone(ts_data)
           /\ ~IsNone(ts_data) => (succeeded /\ ~IsNone(forecast))

C6_Witness ==
    /\ pc = "Done" /\ Prepared
    /\ HasNull(data.rows)
    /\ CallNames = <<"primary", "fallback", "trend">>
    /\ succeeded /\ ~IsNone(forecast)

\* C7: the series prepare_data returns has strictly increasing timestamps and
\* no null value
C7_PreparedSortedNoNulls ==
    Prepared => (StrictlyIncreasing(Get(ts_data)) /\ ~HasNull(Get(ts_data)))

\* C8: prepare_data returns None whenever the raw series has fewer than
\* MinPoints distinct timestamps, on every call of the request, and a parseable
\* series with the value column and MinPoints or more distinct timestamps is
\* not rejected
C8_RejectsFewerThanSix ==
    pc # "NotStarted"
        => /\ Cardinality(UniqueDates(data.rows)) < MinPoints => IsNone(ts_data)
           /\ (data.parseable /\ data.hasColumn
               /\ Cardinality(UniqueDates(data.rows)) >= MinPoints) => ~IsNone(ts_data)

C8_Witness ==
    /\ Rejected
    /\ data.parseable /\ data.hasColumn
    /\ Len(data.rows) >= MinPoints
    /\ Cardinality(UniqueDates(data.rows)) = MinPoints - 1

\* the first raw row that carries timestamp d
FirstSeen(rows, d) == CHOOSE i \in 1..Len(rows) :
                         rows[i].date = d /\ \A j \in 1..(i - 1) : rows[j].date # d

\* C9: every timestamp of the raw series occurs once in the prepared series,
\* with the value of the first raw row that carries it (when that value is
\* not null)
C9_FirstSeenWins ==
    Prepared
        => /\ Len(Get(ts_data)) = Cardinality(UniqueDates(data.rows))
           /\ \A k \in 1..Len(Get(ts_data)) :
                LET r == Get(ts_data)[k]
                    f == data.rows[FirstSeen(data.rows, r.date)]
                IN  f.value # NULL => r.value = f.value

C9_Witness ==
    /\ Prepared
    /\ \E i, j \in 1..Len(data.rows) :
        /\ i < j
        /\ data.rows[i].date = data.rows[j].date
        /\ data.rows[i].value # NULL /\ data.rows[j].value # NULL
        /\ data.rows[i].value # data.rows[j].value
        \* the duplicated timestamp is the latest one and comes first in the input
        /\ i = 1 /\ \A k \in 1..Len(data.rows) : data.rows[k].date <= data.rows[i].date

\* C10: after a successful prepare_data, historical_data is the series
\* prepare_data returned
C10_HistoricalIsPrepared ==
    Prepared => historical_data = ts_data

\* C12: the effort train chooses depends on the series length alone: up to 12
\* rows give (1, 1), 13 to 24 rows give (2, 2), more give (3, 3); both values
\* are at least 1 and grow by one at each threshold
C12_EffortByLength ==
    pc = "Selected"
        => LET n == Len(Get(ts_data))
               g == Get(selection).max_generations
               v == Get(selection).num_validations
           IN  /\ g = v /\ g >= 1
               /\ n <= 12 => g = 1
               /\ (12 < n /\ n <= 24) => g = 2
               /\ n > 24 => g = 3

C12_Witness ==
    /\ pc = "Selected"
    /\ Len(Get(ts_data)) = 24
    /\ Get(selection).max_generations = 2
    /\ Get(selection).num_validations = 2

\* C13: the model list is determined by the complexity alone: simple gives
\* superfast, medium gives fast, complex gives default, all gives all, and it
\* is always one of these four lists
C13_ModelListByComplexity ==
    pc = "Selected"
        => LET l == Get(selection).model_list
           IN  /\ l \in {"superfast", "fast", "default", "all"}
               /\ model_complexity = "simple" => l = "superfast"
               /\ model_complexity = "medium" => l = "fast"
               /\ model_complexity = "complex" => l = "default"
               /\ model_complexity = "all" => l = "all"

C13_Witness ==
    /\ pc = "Selected"
    /\ model_complexity = "complex"
    /\ Len(Get(ts_data)) = MinPoints
    /\ Get(selection).model_list = "default"

\* the metadata of the returned model and the strategy a caller reads from it
ModelInfo ==
    get_model_info(training_successful, best_model_name, forecast_length, frequency,
                   model_complexity)
DescribedStrategy ==
    IF ModelInfo.status = StatusNotTrained THEN "trend"
    ELSE IF ModelInfo.best_model \in FallbackNames THEN "fallback"
    ELSE "primary"
\* the strategy that produced the returned forecast
ProducingStrategy ==
    IF IsTrendFrame(forecast) THEN "trend" ELSE Get(model).tier

\* C11: for every forecast create_forecast returns, the metadata of the
\* returned model names the strategy that produced it; a trend forecast is not
\* described as the result of a trained model
C11_MetadataNamesStrategy ==
    (pc = "Done" /\ ~IsNone(forecast))
        => /\ DescribedStrategy = ProducingStrategy
           /\ IsTrendFrame(forecast) => ModelInfo.status = StatusNotTrained

\* C14: a fallback fit that returned a non-empty best model name, whatever the
\* name, leaves training_successful True and best_model_name equal to that name
\* followed by the fallback suffix; a best_model_name set by the primary tier
\* is the fitted name without the suffix
C14_FallbackNameAcceptedAndSuffixed ==
    /\ \A i \in 1..Len(calls) :
        (calls[i].call = "fallback" /\ calls[i].result \notin {"raise", NoName})
            => /\ training_successful
               /\ best_model_name = calls[i].result \o FallbackSuffix
               /\ model = Fitted("fallback", calls[i].result)
    /\ (training_successful /\ ~Called("fallback"))
            => /\ best_model_name = calls[1].result
               /\ best_model_name \in PrimaryFitOutcomes
               /\ best_model_name \notin FallbackNames

C14_Witness ==
    /\ pc = "Done"
    /\ calls[1] = Call("primary", ZeroesNaive)
    /\ calls[2] = Call("fallback", ZeroesNaive)
    /\ training_successful
    /\ best_model_name = ZeroesNaive \o FallbackSuffix

\* the history and the forecast rows of a direct trend call
History == Get(historical_data)
ForecastRows == Get(forecast).rows
LastDate == History[Len(History)].date

\* C15: on a linear history (value at index i = a + b*i, at least 2 points,
\* n points) the trend forecast has for every k in 0..horizon-1 exactly the
\* value a + b*(n + k)
C15_LinearHistoryContinues ==
    (pc = "TrendDone" /\ Len(History) >= 2)
        => LET n == Len(History)
               a == History[1].value
               b == History[2].value - History[1].value
           IN  (\A i \in 1..n : History[i].value = a + b * (i - 1))
                 => /\ IsTrendFrame(forecast)
                    /\ Len(ForecastRows) = forecast_length
                    /\ \A k \in 0..(forecast_length - 1) :
                         LET v == ForecastRows[k + 1].value
                         IN  v[2] # 0 /\ v[1] = (a + b * (n + k)) * v[2]

C15_Witness ==
    /\ pc = "TrendDone"
    /\ Len(History) = MaxHist
    /\ History[2].value - History[1].value = 2 * ValueUnit
    /\ forecast_length = MaxHorizon
    /\ IsTrendFrame(forecast)
    /\ ForecastRows[MaxHorizon].value[1]
         = (History[1].value + 2 * ValueUnit * (MaxHist + MaxHorizon - 1))
           * ForecastRows[MaxHorizon].value[2]

\* C17: for frequency 'ME' the timestamps of a trend forecast fall in
\* consecutive calendar months, none skipped or repeated, the first one in the
\* month after the month of the last historical timestamp, whatever the day of
\* the month of that timestamp
C17_MonthlyTimestampsConsecutive ==
    (pc = "TrendDone" /\ frequency = "ME" /\ Len(History) >= 1)
        => /\ IsTrendFrame(forecast)
           /\ Len(ForecastRows) = forecast_length
           /\ \A k \in 1..forecast_length :
                /\ MonthOfDay(ForecastRows[k].date) = MonthOfDay(LastDate) + k
                /\ ForecastRows[k].date = MonthEndDay(MonthOfDay(LastDate) + k)

C17_Witness ==
    /\ pc = "TrendDone"
    /\ frequency = "ME"
    /\ Len(History) >= 1
    /\ LastDate = MonthStartDay(6) + 14
    /\ forecast_length = MaxHorizon
    /\ IsTrendFrame(forecast)
    /\ ForecastRows[1].date = MonthEndDay(7)
    /\ ForecastRows[MaxHorizon].date = MonthEndDay(6 + MaxHorizon)

\* the end of the period of a frequency that follows the one holding day d:
\* the next day, the next Sunday, the end of the next month
NextPeriod(freq, d) ==
    IF freq = "D" THEN d + 1
    ELSE IF freq = "W" THEN SundayOnOrAfter(d + 1)
    ELSE MonthEndDay(MonthOfDay(d) + 1)

\* C18: for every frequency the first timestamp of a trend forecast is one
\* period after the last historical timestamp and each later timestamp is one
\* period after the one before it
C18_TimestampsOnePeriodApart ==
    (pc = "TrendDone" /\ IsTrendFrame(forecast))
        => /\ ForecastRows[1].date = NextPeriod(frequency, LastDate)
           /\ \A k \in 2..Len(ForecastRows) :
                ForecastRows[k].date = NextPeriod(frequency, ForecastRows[k - 1].date)

\* the forecast is a frame of forecast_length rows that all carry value v
FlatForecast(v) ==
    /\ IsTrendFrame(forecast)
    /\ Len(ForecastRows) = forecast_length
    /\ \A k \in 1..forecast_length : ForecastRows[k].value = <<v, 1>>

\* C16 as stated: a history of fewer than 2 points gives a flat forecast of
\* forecast_length repetitions of the last value
C16_ShortHistoryFlat ==
    (pc = "TrendDone" /\ Len(History) < 2)
        => /\ IsTrendFrame(forecast)
           /\ Len(History) >= 1 => FlatForecast(History[Len(History)].value)

\* C16 amended: a history of exactly one point gives a flat forecast of
\* forecast_length repetitions of its value, an empty history gives None, and
\* in a request the history is None or has at least MinPoints rows, so the
\* request never takes the flat branch
C16_OnePointFlatOnlyDirect ==
    /\ (pc = "TrendDone" /\ Len(History) = 1) => FlatForecast(History[1].value)
    /\ (pc = "TrendDone" /\ Len(History) = 0) => IsNone(forecast)
    /\ pc \notin {"TrendCall", "TrendDone"}
         => IsNone(historical_data) \/ Len(History) >= MinPoints

C16_Witness ==
    /\ pc = "TrendDone"
    /\ Len(History) = 1
    /\ History[1].value = 5 * ValueUnit
    /\ forecast_length = MaxHorizon
    /\ FlatForecast(5 * ValueUnit)

\* C19: whenever create_forecast returns succeeded = True the forecast it
\* returns is not None, also when training succeeded and predict() fell back
\* to trend extrapolation
C19_SucceededHasForecast ==
    (pc = "Done" /\ succeeded) => ~IsNone(forecast)

C19_Witness ==
    /\ pc = "Done"
    /\ succeeded
    /\ calls = <<Call("primary", "ETS"), Call("predict", "raise"), Call("trend", "frame")>>
    /\ IsTrendFrame(forecast)
    /\ Len(Get(forecast).rows) = forecast_length

\* the model the instance holds was fitted and accepted by the current train call
FittedByThisCall ==
    \E i \in 1..Len(calls) :
        \/ calls[i].call = "primary" /\ primary_accepts(calls[i].result)
        \/ calls[i].call = "fallback" /\ fallback_accepts(calls[i].result)
           /\ calls[i].result # "raise"

\* C20: after a train() call that returned False the instance holds no state
\* of an earlier call: training_successful is False, historical_data is what
\* this call saved, and a forecast made afterwards comes neither from a model
\* nor from a history that an earlier call left
C20_NoStaleStateAfterFalse ==
    /\ pc = "TrendExtrapolation"
         => /\ ~training_successful
            /\ historical_data = prepare_data_historical(data, None)
    /\ (pc = "Done" /\ forecast = AutoTSForecast) => FittedByThisCall
    /\ (pc = "Done" /\ IsTrendFrame(forecast))
         => historical_data = prepare_data_historical(data, None)

\* C21: in every session state reached by registrations, login attempts,
\* token entries and logouts, a session that is not authenticated has no
\* stored token and the empty username; tokens are stored only in an
\* authenticated session
C21_AnonymousSessionIsEmpty ==
    ~authenticated => (tokens = EmptyDict /\ username = "")

C21_Witness ==
    /\ widgets = [run |-> "authenticated", avito_token |-> "tok1", hh_token |-> "tok2",
                  logout |-> TRUE]
    /\ "bob" \in DOMAIN users
    /\ ~authenticated
    /\ username = ""
    /\ tokens = EmptyDict

\* C22: prepare_data leaves the caller's frame unchanged: no step of a
\* request, whether prepare_data returns a series or None, changes the rows,
\* their order or the columns of the frame the caller handed in
C22_InputFrameUnchanged ==
    [][caller_frame' = caller_frame]_vars

C22_Witness ==
    /\ pc = "Done"
    /\ calls[1] = Call("primary", "raise")
    /\ calls[2].call = "fallback"
    /\ ~IsNone(ts_data)
    /\ HasNull(data.rows)
    /\ ~HasNull(Get(ts_data))
    /\ data.rows # Get(historical_data)
    /\ caller_frame = [rows |-> data.rows, date_dtype |-> "object"]

====
